---- MODULE Spec2Model ----
(***************************************************************************)
(* Model of diff_k8s_manifests.py: the recursive tree differ               *)
(* (compare_state_dicts / compare_state_lists) and the field mismatch      *)
(* checker (check_mismatches), and the presenter's get_diff_summary.        *)
(*                                                                         *)
(* A document tree is a tagged value [t, v]:                               *)
(*   t = "str" | "int" | "null" : a scalar, v is the text str() gives it   *)
(*   t = "dict" : v is the sequence of <<key, value>> pairs in the         *)
(*                dict's iteration (insertion) order, keys unique          *)
(*   t = "list" : v is the sequence of the elements                        *)
(* A Python exception is the field err of a result ("none" when the call   *)
(* returned); a raised call returns nothing else.                          *)
(* Scalars are strings, ints and null; bools and floats (for which Python  *)
(* has True == 1 == 1.0) are left out. Keys are strings. A path is the     *)
(* string the f-strings of the source build.                               *)
(***************************************************************************)
EXTENDS Naturals, Sequences, FiniteSets

VARIABLES current_state, desired_state, path, fields_to_check, pc, diff, mismatches,
          summary

vars == <<current_state, desired_state, path, fields_to_check, pc, diff, mismatches,
          summary>>

(***************************************************************************)
(* Document trees                                                          *)
(***************************************************************************)
Str(s) == [t |-> "str", v |-> s]

Int(s) == [t |-> "int", v |-> s]

Null == [t |-> "null", v |-> "None"]

Dict(kv) == [t |-> "dict", v |-> kv]

List(el) == [t |-> "list", v |-> el]

IsDict(x) == x.t = "dict"

IsList(x) == x.t = "list"

\* key in d
HasKey(d, k) == \E i \in 1..Len(d.v) : d.v[i][1] = k

\* d[key], for a key the dict has
Get(d, k) == d.v[CHOOSE i \in 1..Len(d.v) : d.v[i][1] = k][2]

\* Python's == on document trees: dicts compare without regard to order,
\* lists element by element in order, scalars by type and value.
RECURSIVE DeepEq(_, _)
DeepEq(a, b) ==
    IF a.t # b.t THEN FALSE
    ELSE IF a.t = "dict" THEN
        /\ Len(a.v) = Len(b.v)
        /\ \A i \in 1..Len(a.v) :
              /\ HasKey(b, a.v[i][1])
              /\ DeepEq(a.v[i][2], Get(b, a.v[i][1]))
    ELSE IF a.t = "list" THEN
        /\ Len(a.v) = Len(b.v)
        /\ \A i \in 1..Len(a.v) : DeepEq(a.v[i], b.v[i])
    ELSE a.v = b.v

\* str(key) inside an f-string
ToStr(x) == x.v

(***************************************************************************)
(* Diff results                                                            *)
(***************************************************************************)
EmptyDiff == [removed |-> <<>>, added |-> <<>>, changed |-> <<>>, err |-> "none"]

\* an exception leaves the function: nothing is returned but the error
Raise(e) == [removed |-> <<>>, added |-> <<>>, changed |-> <<>>, err |-> e]

\* diff[...].extend(sub_diff[...]) for the three lists
ExtendAll(d, sub) ==
    IF sub.err # "none" THEN Raise(sub.err)
    ELSE [removed |-> d.removed \o sub.removed,
          added |-> d.added \o sub.added,
          changed |-> d.changed \o sub.changed,
          err |-> "none"]

\* diff["added"].extend(sub_diff["added"]) alone
ExtendAdded(d, sub) ==
    IF sub.err # "none" THEN Raise(sub.err)
    ELSE [d EXCEPT !.added = d.added \o sub.added]

\* key_path = f"{path}.{key}" if path else key
KeyPath(p, key) == IF p # "" THEN p \o "." \o key ELSE key

\* f"{path}[{key}]"
ElemPath(p, key) == p \o "[" \o ToStr(key) \o "]"

(***************************************************************************)
(* compare_state_lists: choosing the identity key                          *)
(***************************************************************************)
\* the strings of the model that have "name" as a substring
ContainsName(s) == s = "name"

\* "name" in current_state[0]: "error" when the operand is not iterable
NameIn(first) ==
    IF first.t = "dict" THEN (IF HasKey(first, "name") THEN "yes" ELSE "no")
    ELSE IF first.t = "str" THEN (IF ContainsName(first.v) THEN "yes" ELSE "no")
    ELSE IF first.t = "list" THEN
        (IF \E i \in 1..Len(first.v) : first.v[i] = Str("name") THEN "yes" ELSE "no")
    ELSE "error"

\* UniqueKey without the preference for "name": always the first key
UniqueKeyFirst(first) ==
    IF first.t # "dict" THEN [err |-> "AttributeError", key |-> ""]
    ELSE IF Len(first.v) = 0 THEN [err |-> "IndexError", key |-> ""]
    ELSE [err |-> "none", key |-> first.v[1][1]]

\* unique_key = "name" if "name" in current_state[0]
\*              else list(current_state[0].keys())[0]
\* returns [err, key]
UniqueKey(first) ==
    IF NameIn(first) = "error" THEN [err |-> "TypeError", key |-> ""]
    ELSE IF NameIn(first) = "yes" THEN [err |-> "none", key |-> "name"]
    ELSE IF first.t # "dict" THEN [err |-> "AttributeError", key |-> ""]
    ELSE IF Len(first.v) = 0 THEN [err |-> "IndexError", key |-> ""]
    ELSE [err |-> "none", key |-> first.v[1][1]]

\* item[unique_key] used as a dict key: "none" or the exception it raises
ItemKeyErr(item, unique_key) ==
    IF item.t # "dict" THEN "TypeError"
    ELSE IF ~HasKey(item, unique_key) THEN "KeyError"
    ELSE IF Get(item, unique_key).t \in {"dict", "list"} THEN "TypeError"
    ELSE "none"

\* DictPut that keeps the first item of a key instead of the last
DictPutKeepFirst(pairs, k, item) ==
    IF \E i \in 1..Len(pairs) : pairs[i][1] = k THEN pairs
    ELSE Append(pairs, <<k, item>>)

\* d[k] = item on an insertion-ordered dict held as <<key, item>> pairs
DictPut(pairs, k, item) ==
    IF \E i \in 1..Len(pairs) : pairs[i][1] = k
    THEN [i \in 1..Len(pairs) |-> IF pairs[i][1] = k THEN <<k, item>> ELSE pairs[i]]
    ELSE Append(pairs, <<k, item>>)

\* {item[unique_key]: item for item in items}: [err, pairs]
RECURSIVE StateDict(_, _, _, _)
StateDict(items, unique_key, i, acc) ==
    IF i > Len(items) THEN [err |-> "none", pairs |-> acc]
    ELSE IF ItemKeyErr(items[i], unique_key) # "none"
         THEN [err |-> ItemKeyErr(items[i], unique_key), pairs |-> <<>>]
    ELSE StateDict(items, unique_key, i + 1,
                   DictPut(acc, Get(items[i], unique_key), items[i]))

\* key in state_dict
InPairs(pairs, k) == \E i \in 1..Len(pairs) : pairs[i][1] = k

\* state_dict[key]
PairsGet(pairs, k) == pairs[CHOOSE i \in 1..Len(pairs) : pairs[i][1] = k][2]

\* for key in current_state_dict: if key not in desired_state_dict: removed
RECURSIVE ListRemoved(_, _, _, _)
ListRemoved(cd, dd, p, i) ==
    IF i > Len(cd) THEN <<>>
    ELSE (IF ~InPairs(dd, cd[i][1])
          THEN <<[path |-> ElemPath(p, cd[i][1]), old_value |-> cd[i][2]]>>
          ELSE <<>>) \o ListRemoved(cd, dd, p, i + 1)

\* ListAdded with the path of the list in place of the path of the element
RECURSIVE ListAddedAtList(_, _, _, _)
ListAddedAtList(cd, dd, p, i) ==
    IF i > Len(dd) THEN <<>>
    ELSE (IF ~InPairs(cd, dd[i][1])
          THEN <<[path |-> p, new_value |-> dd[i][2]]>>
          ELSE <<>>) \o ListAddedAtList(cd, dd, p, i + 1)

\* for key in desired_state_dict: if key not in current_state_dict: added
RECURSIVE ListAdded(_, _, _, _)
ListAdded(cd, dd, p, i) ==
    IF i > Len(dd) THEN <<>>
    ELSE (IF ~InPairs(cd, dd[i][1])
          THEN <<[path |-> ElemPath(p, dd[i][1]), new_value |-> dd[i][2]]>>
          ELSE <<>>) \o ListAdded(cd, dd, p, i + 1)

(***************************************************************************)
(* The two mutually recursive differs                                      *)
(***************************************************************************)
RECURSIVE compare_state_dicts(_, _, _)
RECURSIVE compare_state_lists(_, _, _)
RECURSIVE DictCurrentLoop(_, _, _, _, _)
RECURSIVE DictDesiredLoop(_, _, _, _, _)
RECURSIVE ListMatchedLoop(_, _, _, _, _)

\* RemovedStep that takes a removed mapping apart, the way AddedStep does
RemovedStepLeaves(d, key_path, cv) ==
    IF IsDict(cv)
    THEN ExtendAll(d, compare_state_dicts(cv, Dict(<<>>), key_path))
    ELSE [d EXCEPT !.removed = Append(d.removed, [path |-> key_path, old_value |-> cv])]

\* lines 163-165: key not in desired_state
RemovedStep(d, key_path, cv) ==
    [d EXCEPT !.removed = Append(d.removed, [path |-> key_path, old_value |-> cv])]

\* ChangedStep without the comparison of line 184
ChangedStepAlways(d, key_path, cv, dv) ==
    [d EXCEPT !.changed =
        Append(d.changed, [path |-> key_path, old_value |-> cv, new_value |-> dv])]

\* lines 184-192: the values differ and are not two dicts or two lists
ChangedStep(d, key_path, cv, dv) ==
    IF ~DeepEq(cv, dv)
    THEN [d EXCEPT !.changed =
             Append(d.changed, [path |-> key_path, old_value |-> cv, new_value |-> dv])]
    ELSE d

\* lines 160-192: for key in current_state
DictCurrentLoop(cur, des, p, i, d) ==
    IF d.err # "none" \/ i > Len(cur.v) THEN d
    ELSE LET key == cur.v[i][1]
             cv == cur.v[i][2]
             key_path == KeyPath(p, key)
         IN DictCurrentLoop(cur, des, p, i + 1,
              IF ~HasKey(des, key)
              THEN RemovedStep(d, key_path, cv)
              ELSE IF IsDict(cv) /\ IsDict(Get(des, key))
              THEN ExtendAll(d, compare_state_dicts(cv, Get(des, key), key_path))
              ELSE IF IsList(cv) /\ IsList(Get(des, key))
              THEN ExtendAll(d, compare_state_lists(cv.v, Get(des, key).v, key_path))
              ELSE ChangedStep(d, key_path, cv, Get(des, key)))

\* AddedStep that reports a new mapping as one record
AddedStepWhole(d, key_path, dv) ==
    [d EXCEPT !.added = Append(d.added, [path |-> key_path, new_value |-> dv])]

\* lines 198-204: key not in current_state
AddedStep(d, key_path, dv) ==
    IF IsDict(dv)
    THEN ExtendAdded(d, compare_state_dicts(Dict(<<>>), dv, key_path))
    ELSE [d EXCEPT !.added = Append(d.added, [path |-> key_path, new_value |-> dv])]

\* lines 194-204: for key in desired_state
DictDesiredLoop(cur, des, p, i, d) ==
    IF d.err # "none" \/ i > Len(des.v) THEN d
    ELSE LET key == des.v[i][1]
             key_path == KeyPath(p, key)
         IN DictDesiredLoop(cur, des, p, i + 1,
              IF HasKey(cur, key) THEN d
              ELSE AddedStep(d, key_path, des.v[i][2]))

\* cur, des: two dicts
compare_state_dicts(cur, des, p) ==
    DictDesiredLoop(cur, des, p, 1, DictCurrentLoop(cur, des, p, 1, EmptyDiff))

\* lines 124-134: for key in current_state_dict, matched and unequal
ListMatchedLoop(cd, dd, p, i, d) ==
    IF d.err # "none" \/ i > Len(cd) THEN d
    ELSE ListMatchedLoop(cd, dd, p, i + 1,
           IF InPairs(dd, cd[i][1]) /\ ~DeepEq(cd[i][2], PairsGet(dd, cd[i][1]))
           THEN ExtendAll(d, compare_state_dicts(cd[i][2], PairsGet(dd, cd[i][1]),
                                                 ElemPath(p, cd[i][1])))
           ELSE d)

\* lines 97-99: the record for an empty current list
CurrentEmptyDiff(p) ==
    [EmptyDiff EXCEPT !.removed =
        <<[path |-> p, message |-> "Current state list is empty"]>>]

\* lines 101-103: the record for an empty desired list
DesiredEmptyDiff(p) ==
    [EmptyDiff EXCEPT !.added =
        <<[path |-> p, message |-> "Desired state list is empty"]>>]

\* lines 105-136: both lists hold elements
MatchByKey(cur, des, p) ==
    LET uk == UniqueKey(cur[1])
        cd == StateDict(cur, uk.key, 1, <<>>)
        dd == StateDict(des, uk.key, 1, <<>>)
    IN IF uk.err # "none" THEN Raise(uk.err)
       ELSE IF cd.err # "none" THEN Raise(cd.err)
       ELSE IF dd.err # "none" THEN Raise(dd.err)
       ELSE ListMatchedLoop(cd.pairs, dd.pairs, p, 1,
              [EmptyDiff EXCEPT
                 !.removed = ListRemoved(cd.pairs, dd.pairs, p, 1),
                 !.added = ListAdded(cd.pairs, dd.pairs, p, 1)])

\* compare_state_lists that looks at the desired list first
compare_state_lists_desired_first(cur, des, p) ==
    IF Len(des) = 0 THEN DesiredEmptyDiff(p)
    ELSE IF Len(cur) = 0 THEN CurrentEmptyDiff(p)
    ELSE MatchByKey(cur, des, p)

\* cur, des: the element sequences of the two lists
compare_state_lists(cur, des, p) ==
    IF Len(cur) = 0 THEN CurrentEmptyDiff(p)
    ELSE IF Len(des) = 0 THEN DesiredEmptyDiff(p)
    ELSE MatchByKey(cur, des, p)

(***************************************************************************)
(* check_mismatches                                                        *)
(***************************************************************************)
\* state.get(field): the value, or None when the key is absent
DictGet(d, field) == IF HasKey(d, field) THEN Get(d, field) ELSE Null

\* lines 226-236: one field's verdict, current_value != desired_value
FieldMismatch(cur, des, field) == ~DeepEq(DictGet(cur, field), DictGet(des, field))

\* lines 224-238: mismatches[field] = True / False for each field in turn
check_mismatches(cur, des, fields) ==
    [f \in {fields[i] : i \in 1..Len(fields)} |-> FieldMismatch(cur, des, f)]

(***************************************************************************)
(* get_diff_summary                                                        *)
(***************************************************************************)
\* ", ".join(...) of the texts of a sequence
RECURSIVE JoinComma(_)
JoinComma(texts) ==
    IF texts = <<>> THEN ""
    ELSE IF Len(texts) = 1 THEN texts[1]
    ELSE texts[1] \o ", " \o JoinComma(Tail(texts))

\* repr(value), which str() uses for what a dict or a list holds
RECURSIVE PyRepr(_)
PyRepr(x) ==
    IF x.t = "str" THEN "'" \o x.v \o "'"
    ELSE IF x.t = "dict"
    THEN "{" \o JoinComma([i \in 1..Len(x.v) |->
                              "'" \o x.v[i][1] \o "': " \o PyRepr(x.v[i][2])]) \o "}"
    ELSE IF x.t = "list"
    THEN "[" \o JoinComma([i \in 1..Len(x.v) |-> PyRepr(x.v[i])]) \o "]"
    ELSE x.v

\* str(value) inside an f-string: a string as it is, the rest as repr
PyStr(x) == IF x.t = "str" THEN x.v ELSE PyRepr(x)

\* yaml.dump(value).strip(): PyYAML is outside the source; the text is
\* written here in flow form. It is defined for every document tree.
RECURSIVE YamlDump(_)
YamlDump(x) ==
    IF x.t = "null" THEN "null"
    ELSE IF x.t = "str" THEN (IF x.v = "" THEN "''" ELSE x.v)
    ELSE IF x.t = "dict"
    THEN "{" \o JoinComma([i \in 1..Len(x.v) |->
                              x.v[i][1] \o ": " \o YamlDump(x.v[i][2])]) \o "}"
    ELSE IF x.t = "list"
    THEN "[" \o JoinComma([i \in 1..Len(x.v) |-> YamlDump(x.v[i])]) \o "]"
    ELSE x.v

\* line 255: one entry of summary["removed"]; item.get('old_value', '')
RemovedEntry(item) ==
    [err |-> "none",
     text |-> item.path \o ": " \o
              YamlDump(IF "old_value" \in DOMAIN item THEN item.old_value ELSE Str(""))]

\* line 261: one entry of summary["added"]; item['new_value']
AddedEntry(item) ==
    IF "new_value" \notin DOMAIN item THEN [err |-> "KeyError", text |-> ""]
    ELSE [err |-> "none", text |-> item.path \o ": " \o YamlDump(item.new_value)]

\* line 267: one entry of summary["changed"]
ChangedEntry(item) ==
    IF "old_value" \notin DOMAIN item \/ "new_value" \notin DOMAIN item
    THEN [err |-> "KeyError", text |-> ""]
    ELSE [err |-> "none",
          text |-> item.path \o ": old value: " \o PyStr(item.old_value)
                             \o ", new value: " \o PyStr(item.new_value)]

\* a list comprehension over the entries es: [err, texts], the error being
\* that of the first entry that raises
Entries(es) ==
    IF \E i \in 1..Len(es) : es[i].err # "none"
    THEN [err |-> es[CHOOSE i \in 1..Len(es) :
                        /\ es[i].err # "none"
                        /\ \A j \in 1..(i - 1) : es[j].err = "none"].err,
          texts |-> <<>>]
    ELSE [err |-> "none", texts |-> [i \in 1..Len(es) |-> es[i].text]]

\* lines 251-271: [err, out]; out has a key for each list that is not empty
get_diff_summary(d) ==
    LET removed == Entries([i \in 1..Len(d.removed) |-> RemovedEntry(d.removed[i])])
        added == Entries([i \in 1..Len(d.added) |-> AddedEntry(d.added[i])])
        changed == Entries([i \in 1..Len(d.changed) |-> ChangedEntry(d.changed[i])])
        texts == [k \in {"removed", "added", "changed"} |->
                    IF k = "removed" THEN removed.texts
                    ELSE IF k = "added" THEN added.texts ELSE changed.texts]
    IN IF removed.err # "none" THEN [err |-> removed.err, out |-> <<>>]
       ELSE IF added.err # "none" THEN [err |-> added.err, out |-> <<>>]
       ELSE IF changed.err # "none" THEN [err |-> changed.err, out |-> <<>>]
       ELSE [err |-> "none",
             out |-> [k \in {x \in {"removed", "added", "changed"} : d[x] # <<>>} |->
                        texts[k]]]

(***************************************************************************)
(* Input domains                                                           *)
(***************************************************************************)
\* longest list
MaxLen == 2

\* longest fields_to_check
MaxFields == 2

Keys == {"name", "image"}

\* the orders in which a dict can hold distinct keys of ks
KeySeqs(ks) ==
    UNION {{s \in [1..n -> ks] : \A i, j \in 1..n : i # j => s[i] # s[j]} :
           n \in 0..Cardinality(ks)}

\* the dicts with keys of ks and values of vals, in every key order
DictsOver(ks, vals) ==
    UNION {{Dict([i \in 1..Len(s) |-> <<s[i], f[i]>>]) : f \in [1..Len(s) -> vals]} :
           s \in KeySeqs(ks)}

\* the sequences over elems of length at most n
SeqsOver(elems, n) == UNION {[1..k -> elems] : k \in 0..n}

\* Elements of the lists compare_state_lists is called on: the same name
\* with another image, in another key order, as an int whose str() is the
\* same, another name, no name, no key at all, and a scalar.
Elements ==
    {Dict(<< <<"name", Str("1")>>, <<"image", Str("a")>> >>),
     Dict(<< <<"name", Str("1")>>, <<"image", Str("b")>> >>),
     Dict(<< <<"image", Str("a")>>, <<"name", Str("1")>> >>),
     Dict(<< <<"name", Int("1")>>, <<"image", Str("a")>> >>),
     Dict(<< <<"name", Str("2")>>, <<"image", Str("a")>> >>),
     Dict(<< <<"image", Str("a")>> >>),
     Dict(<<>>),
     Str("a")}

ElementLists == SeqsOver(Elements, MaxLen)

ListPaths == {"", "spec.containers"}

\* Documents: kind is a scalar; spec is a scalar, a dict, a list, or one of
\* those under spec.template.
DocScalars == {Str("a"), Str("b")}

DocElements ==
    {Dict(<< <<"name", Str("a")>>, <<"image", Str("a")>> >>),
     Dict(<< <<"name", Str("a")>>, <<"image", Str("b")>> >>),
     Dict(<< <<"name", Str("b")>>, <<"image", Str("a")>> >>),
     Str("a")}

DocValues ==
    DocScalars \cup DictsOver(Keys, DocScalars)
               \cup {List(s) : s \in SeqsOver(DocElements, MaxLen)}

SpecValues == DocValues \cup {Dict(<< <<"template", v>> >>) : v \in DocValues}

Documents ==
    {Dict(<<>>)}
    \cup {Dict(<< <<"kind", k>> >>) : k \in DocScalars}
    \cup {Dict(<< <<"spec", v>> >>) : v \in SpecValues}
    \cup {Dict(<< <<"kind", k>>, <<"spec", v>> >>) : k \in DocScalars, v \in SpecValues}

\* compare_state_dicts is called at the root and below a path
DictPaths == {"", "metadata"}

\* Documents and field lists check_mismatches is called on
FieldNames == {"kind", "apiVersion"}

FieldDocuments == DictsOver(FieldNames, {Str("a"), Str("b"), Null})

FieldLists == SeqsOver(FieldNames, MaxFields)

NoDiff == Raise("unset")

NoMismatches == [f \in {} |-> FALSE]

NoSummary == [err |-> "unset", out |-> <<>>]

(***************************************************************************)
(* Spec: compare_state_dicts on two documents, then get_diff_summary on    *)
(* the result (print_diff, lines 292-294)                                  *)
(***************************************************************************)
Init ==
    /\ current_state \in Documents
    /\ desired_state \in Documents
    /\ path \in DictPaths
    /\ fields_to_check = <<>>
    /\ pc = "dicts"
    /\ diff = NoDiff
    /\ mismatches = NoMismatches
    /\ summary = NoSummary

CompareStateDicts ==
    /\ pc = "dicts"
    /\ diff' = compare_state_dicts(current_state, desired_state, path)
    /\ pc' = IF diff'.err = "none" THEN "returned" ELSE "raised"
    /\ UNCHANGED <<current_state, desired_state, path, fields_to_check, mismatches,
                   summary>>

GetDiffSummary ==
    /\ pc = "returned"
    /\ summary' = get_diff_summary(diff)
    /\ pc' = IF summary'.err = "none" THEN "summarised" ELSE "summary_raised"
    /\ UNCHANGED <<current_state, desired_state, path, fields_to_check, diff, mismatches>>

Next == CompareStateDicts \/ GetDiffSummary

Spec == Init /\ [][Next]_vars

(***************************************************************************)
(* SpecLists: compare_state_lists on two lists                             *)
(***************************************************************************)
InitLists ==
    /\ current_state \in ElementLists
    /\ desired_state \in ElementLists
    /\ path \in ListPaths
    /\ fields_to_check = <<>>
    /\ pc = "lists"
    /\ diff = NoDiff
    /\ mismatches = NoMismatches
    /\ summary = NoSummary

CompareStateLists ==
    /\ pc = "lists"
    /\ diff' = compare_state_lists(current_state, desired_state, path)
    /\ pc' = IF diff'.err = "none" THEN "returned" ELSE "raised"
    /\ UNCHANGED <<current_state, desired_state, path, fields_to_check, mismatches,
                   summary>>

NextLists == CompareStateLists

SpecLists == InitLists /\ [][NextLists]_vars

(***************************************************************************)
(* SpecFields: check_mismatches on two documents and a list of fields      *)
(***************************************************************************)
InitFields ==
    /\ current_state \in FieldDocuments
    /\ desired_state \in FieldDocuments
    /\ path = ""
    /\ fields_to_check \in FieldLists
    /\ pc = "fields"
    /\ diff = NoDiff
    /\ mismatches = NoMismatches
    /\ summary = NoSummary

CheckMismatches ==
    /\ pc = "fields"
    /\ mismatches' = check_mismatches(current_state, desired_state, fields_to_check)
    /\ pc' = "returned"
    /\ UNCHANGED <<current_state, desired_state, path, fields_to_check, diff, summary>>

NextFields == CheckMismatches

SpecFields == InitFields /\ [][NextFields]_vars

(***************************************************************************)
(* Operators the properties are stated with                                *)
(***************************************************************************)
\* how many times x occurs in the sequence s
RECURSIVE Count(_, _)
Count(s, x) ==
    IF s = <<>> THEN 0
    ELSE (IF Head(s) = x THEN 1 ELSE 0) + Count(Tail(s), x)

\* the two sequences hold the same records the same number of times
SameBag(s, t) ==
    /\ Len(s) = Len(t)
    /\ \A i \in 1..Len(s) : Count(s, s[i]) = Count(t, s[i])

PathsOf(s) == {s[i].path : i \in 1..Len(s)}

NoRecords(d) == d.removed = <<>> /\ d.added = <<>> /\ d.changed = <<>>

\* the dict d without the key k
Without(d, k) == Dict(SelectSeq(d.v, LAMBDA kv : kv[1] # k))

\* the call has ended, by returning or by raising
Ended == pc \in {"returned", "raised"}

\* a Removed record read as an Added one, and back
AsAdded(r) ==
    IF "old_value" \in DOMAIN r THEN [path |-> r.path, new_value |-> r.old_value]
    ELSE [path |-> r.path]

AsRemoved(r) ==
    IF "new_value" \in DOMAIN r THEN [path |-> r.path, old_value |-> r.new_value]
    ELSE [path |-> r.path]

Swapped(r) == [path |-> r.path, old_value |-> r.new_value, new_value |-> r.old_value]

MapSeq(s, Op(_)) == [i \in 1..Len(s) |-> Op(s[i])]

\* the run with current and desired exchanged is the mirror image of d
MirrorOf(d, e) ==
    /\ d.err = "none" /\ e.err = "none"
    /\ SameBag(e.added, MapSeq(d.removed, AsAdded))
    /\ SameBag(e.removed, MapSeq(d.added, AsRemoved))
    /\ SameBag(e.changed, MapSeq(d.changed, Swapped))
    /\ PathsOf(e.removed) \cup PathsOf(e.added) \cup PathsOf(e.changed)
         = PathsOf(d.removed) \cup PathsOf(d.added) \cup PathsOf(d.changed)

\* every element is a mapping with a scalar "name", unique in the sequence
NamedUnique(s) ==
    /\ \A i \in 1..Len(s) :
          /\ IsDict(s[i]) /\ HasKey(s[i], "name")
          /\ Get(s[i], "name").t \notin {"dict", "list"}
    /\ \A i, j \in 1..Len(s) : i # j => Get(s[i], "name") # Get(s[j], "name")

\* Wherever two mappings are compared, a key of one side only holds no
\* mapping; wherever two sequences are compared, both are non-empty and
\* NamedUnique.
RECURSIVE MirrorScope(_, _)
MirrorScope(a, b) ==
    IF IsDict(a) /\ IsDict(b) THEN
        /\ \A i \in 1..Len(a.v) :
              IF HasKey(b, a.v[i][1]) THEN MirrorScope(a.v[i][2], Get(b, a.v[i][1]))
              ELSE ~IsDict(a.v[i][2])
        /\ \A i \in 1..Len(b.v) : HasKey(a, b.v[i][1]) \/ ~IsDict(b.v[i][2])
    ELSE IF IsList(a) /\ IsList(b) THEN
        /\ Len(a.v) > 0 /\ Len(b.v) > 0
        /\ NamedUnique(a.v) /\ NamedUnique(b.v)
        /\ \A i \in 1..Len(a.v) : \A j \in 1..Len(b.v) :
              Get(a.v[i], "name") = Get(b.v[j], "name") => MirrorScope(a.v[i], b.v[j])
    ELSE TRUE

\* one Added record per non-mapping leaf of the mapping v, under path p
RECURSIVE LeafRecords(_, _, _)
LeafRecords(v, p, i) ==
    IF i > Len(v.v) THEN <<>>
    ELSE (IF IsDict(v.v[i][2])
          THEN LeafRecords(v.v[i][2], KeyPath(p, v.v[i][1]), 1)
          ELSE <<[path |-> KeyPath(p, v.v[i][1]), new_value |-> v.v[i][2]]>>)
         \o LeafRecords(v, p, i + 1)

\* a mapping with at least two leaves, one of them below a nested mapping
DeepMapping(v) ==
    /\ IsDict(v)
    /\ Len(LeafRecords(v, "", 1)) >= 2
    /\ \E i \in 1..Len(v.v) : IsDict(v.v[i][2])

(***************************************************************************)
(* Properties of compare_state_dicts, under Spec                           *)
(***************************************************************************)
\* C1 (Identity): diffing a document tree against itself returns a result
\* whose removed, added and changed lists are all empty.
C1_Identity == (Ended /\ current_state = desired_state) => diff = EmptyDiff

\* C2 (Totality): compare_state_dicts and the compare_state_lists calls
\* below it return a result on any two document trees; nothing is raised.
C2_Totality == pc # "raised"

C4_Completeness ==
    pc = "returned" =>
        /\ ~DeepEq(current_state, desired_state) => ~NoRecords(diff)
        /\ PathsOf(diff.removed) \cap PathsOf(diff.added) = {}
        /\ PathsOf(diff.removed) \cap PathsOf(diff.changed) = {}
        /\ PathsOf(diff.added) \cap PathsOf(diff.changed) = {}

\* C5 (New mapping decomposition): a key k of desired that current lacks
\* adds to the result, beside what the diff without k holds, nothing to
\* removed and changed, and to added: one record per non-mapping leaf of
\* desired[k], with its dotted path, when desired[k] is a mapping (none of
\* them at k itself); one record at k with the whole value otherwise.
C5_NewMappingDecomposition ==
    pc = "returned" =>
        \A i \in 1..Len(desired_state.v) :
            LET k == desired_state.v[i][1]
                dv == desired_state.v[i][2]
                base == compare_state_dicts(current_state, Without(desired_state, k), path)
                kp == IF path = "" THEN k ELSE path \o "." \o k
                new == IF IsDict(dv) THEN LeafRecords(dv, kp, 1)
                       ELSE <<[path |-> kp, new_value |-> dv]>>
            IN ~HasKey(current_state, k) =>
                  /\ base.err = "none"
                  /\ diff.removed = base.removed
                  /\ diff.changed = base.changed
                  /\ SameBag(diff.added, base.added \o new)
                  /\ Count(MapSeq(diff.added, LAMBDA r : r.path), kp)
                        = IF IsDict(dv) THEN 0 ELSE 1

C5_Witness ==
    /\ pc = "returned" /\ path # ""
    /\ HasKey(desired_state, "spec") /\ ~HasKey(current_state, "spec")
    /\ DeepMapping(Get(desired_state, "spec"))
    /\ HasKey(desired_state, "kind") /\ HasKey(current_state, "kind")
    /\ Len(diff.changed) = 1

\* C6 (Whole-subtree removal): a key k of current that desired lacks adds
\* to the result, beside what the diff without k holds, exactly one Removed
\* record, with path k and the whole current[k] as old_value, and nothing
\* else.
C6_WholeSubtreeRemoval ==
    pc = "returned" =>
        \A i \in 1..Len(current_state.v) :
            LET k == current_state.v[i][1]
                cv == current_state.v[i][2]
                base == compare_state_dicts(Without(current_state, k), desired_state, path)
                kp == IF path = "" THEN k ELSE path \o "." \o k
            IN ~HasKey(desired_state, k) =>
                  /\ base.err = "none"
                  /\ diff.added = base.added
                  /\ diff.changed = base.changed
                  /\ SameBag(diff.removed, base.removed \o <<[path |-> kp, old_value |-> cv]>>)
                  /\ Count(MapSeq(diff.removed, LAMBDA r : r.path), kp) = 1

C6_Witness ==
    /\ pc = "returned" /\ path # ""
    /\ HasKey(current_state, "spec") /\ ~HasKey(desired_state, "spec")
    /\ DeepMapping(Get(current_state, "spec"))
    /\ HasKey(desired_state, "kind") /\ HasKey(current_state, "kind")
    /\ Len(diff.changed) = 1

(***************************************************************************)
(* Properties of compare_state_lists, under SpecLists                      *)
(***************************************************************************)
\* the rearrangements of the sequence s
Perms(s) ==
    {[i \in 1..Len(s) |-> s[f[i]]] :
        f \in {g \in [1..Len(s) -> 1..Len(s)] : \A i, j \in 1..Len(s) : i # j => g[i] # g[j]}}

\* t holds the elements of s, in some order
Reordering(s, t) ==
    \E u \in Perms(s) : Len(u) = Len(t) /\ \A i \in 1..Len(t) : DeepEq(u[i], t[i])

\* the identity key the differ takes for the current list cur
IdKey(cur) == UniqueKey(cur[1]).key

\* the identity-key values of the elements of s
IdValues(s, key) == {Get(s[i], key) : i \in 1..Len(s)}

\* the last element of s that carries the identity-key value v
LastWith(s, key, v) ==
    s[CHOOSE i \in 1..Len(s) :
         /\ Get(s[i], key) = v
         /\ \A j \in (i + 1)..Len(s) : Get(s[j], key) # v]

\* the path of the element with identity-key value v, and the paths below it
AtOrBelow(p, v) ==
    {p \o "[" \o v.v \o "]"} \cup {p \o "[" \o v.v \o "]." \o k : k \in Keys}

\* the records for the elements of s whose name no element of t has
RECURSIVE Unmatched(_, _, _, _)
Unmatched(s, t, p, field) ==
    IF s = <<>> THEN <<>>
    ELSE (IF Get(Head(s), "name") \in IdValues(t, "name") THEN <<>>
          ELSE <<[x \in {"path", field} |->
                    IF x = "path" THEN p \o "[" \o Get(Head(s), "name").v \o "]"
                    ELSE Head(s)]>>)
         \o Unmatched(Tail(s), t, p, field)

\* the mapping diffs of the pairs of elements with the same name
RECURSIVE PairDiffs(_, _, _)
PairDiffs(s, t, p) ==
    IF s = <<>> THEN EmptyDiff
    ELSE LET n == Get(Head(s), "name")
             rest == PairDiffs(Tail(s), t, p)
         IN IF n \in IdValues(t, "name")
            THEN ExtendAll(compare_state_dicts(Head(s), LastWith(t, "name", n),
                                               p \o "[" \o n.v \o "]"), rest)
            ELSE rest

\* both lists hold elements, each a mapping with a name of its own
NamedLists ==
    /\ Len(current_state) > 0 /\ Len(desired_state) > 0
    /\ NamedUnique(current_state) /\ NamedUnique(desired_state)

\* C7 (List identity matching): on two non-empty lists of mappings with
\* unique names the result holds one Removed record per name of current
\* alone, one Added record per name of desired alone, and beside them only
\* the records of the mapping diffs of the pairs with the same name; it is
\* the same for every order of the two lists, and empty when desired is a
\* reordering of current.
C7_ListIdentityMatching ==
    (Ended /\ NamedLists) =>
        /\ pc = "returned"
        /\ LET pairs == PairDiffs(current_state, desired_state, path)
           IN /\ pairs.err = "none"
              /\ SameBag(diff.removed,
                         Unmatched(current_state, desired_state, path, "old_value")
                            \o pairs.removed)
              /\ SameBag(diff.added,
                         Unmatched(desired_state, current_state, path, "new_value")
                            \o pairs.added)
              /\ SameBag(diff.changed, pairs.changed)
        /\ \A c \in Perms(current_state) : \A d \in Perms(desired_state) :
              LET other == compare_state_lists(c, d, path)
              IN /\ other.err = "none"
                 /\ SameBag(other.removed, diff.removed)
                 /\ SameBag(other.added, diff.added)
                 /\ SameBag(other.changed, diff.changed)
        /\ Reordering(current_state, desired_state) => NoRecords(diff)

C7_Witness ==
    /\ pc = "returned" /\ NamedLists
    /\ Len(current_state) = 2 /\ Len(desired_state) = 2
    /\ Get(current_state[1], "name") = Get(desired_state[2], "name")
    /\ Get(current_state[2], "name") = Get(desired_state[1], "name")
    /\ Len(diff.changed) = 1 /\ diff.removed = <<>> /\ diff.added = <<>>

C9_EmptyListSentinel ==
    Ended =>
        /\ Len(current_state) = 0 =>
              diff = [removed |-> <<[path |-> path, message |-> "Current state list is empty"]>>,
                      added |-> <<>>, changed |-> <<>>, err |-> "none"]
        /\ (Len(current_state) > 0 /\ Len(desired_state) = 0) =>
              diff = [removed |-> <<>>,
                      added |-> <<[path |-> path, message |-> "Desired state list is empty"]>>,
                      changed |-> <<>>, err |-> "none"]

C9_Witness ==
    /\ pc = "returned"
    /\ Len(current_state) = 0 /\ Len(desired_state) = 2
    /\ Len(diff.removed) = 1 /\ DOMAIN diff.removed[1] = {"path", "message"}

(***************************************************************************)
(* Properties of check_mismatches, under SpecFields                        *)
(***************************************************************************)
\* the field differs: one side alone has it, or both have it with values
\* that are not equal
Mismatched(cur, des, f) ==
    \/ HasKey(cur, f) # HasKey(des, f)
    \/ HasKey(cur, f) /\ HasKey(des, f) /\ ~DeepEq(Get(cur, f), Get(des, f))

\* C10 (Field mismatch checker): the result has exactly the requested
\* fields as keys, and a field is true exactly when it is mismatched, which
\* includes a field that one document alone has, with a null value too.
C10_FieldMismatch ==
    pc = "returned" =>
        /\ DOMAIN mismatches = {fields_to_check[i] : i \in 1..Len(fields_to_check)}
        /\ \A f \in DOMAIN mismatches :
              mismatches[f] = Mismatched(current_state, desired_state, f)


\* the text get_diff_summary puts after the path of a record of list k
EntryTail(k, item) ==
    IF k = "removed"
    THEN ": " \o YamlDump(IF "old_value" \in DOMAIN item THEN item.old_value ELSE Str(""))
    ELSE IF k = "added"
    THEN ": " \o YamlDump(IF "new_value" \in DOMAIN item THEN item.new_value ELSE Str(""))
    ELSE ": old value: " \o PyStr(item.old_value) \o ", new value: " \o PyStr(item.new_value)

\* C11: get_diff_summary returns without error on every result that
\* compare_state_dicts produces, the results holding the message-only records
\* of an empty list included, and for each list of the result that is not
\* empty the summary has one entry per record, in the same order, each
\* beginning with the path of its record.
C11_PresenterAccepts ==
    /\ pc # "summary_raised"
    /\ pc = "summarised" =>
         \A k \in {"removed", "added", "changed"} :
            diff[k] # <<>> =>
               /\ k \in DOMAIN summary.out
               /\ Len(summary.out[k]) = Len(diff[k])
               /\ \A i \in 1..Len(diff[k]) :
                     summary.out[k][i] = diff[k][i].path \o EntryTail(k, diff[k][i])

\* C12 (Changed records are leaf-level changes): in every result of
\* compare_state_dicts, at any depth and inside list elements too, each
\* Changed record has an old_value that is not deeply equal to its new_value,
\* and the two values are never both mappings and never both sequences.
C12_ChangedAreLeafChanges ==
    pc \in {"returned", "summarised"} =>
       \A i \in 1..Len(diff.changed) :
          LET r == diff.changed[i]
          IN /\ ~DeepEq(r.old_value, r.new_value)
             /\ ~(IsDict(r.old_value) /\ IsDict(r.new_value))
             /\ ~(IsList(r.old_value) /\ IsList(r.new_value))

\* both documents hold kind and, under spec.template, a list with the element
\* named a; kind and the element's image differ, the element's name does not
C12_Witness ==
    /\ pc = "returned" /\ path = ""
    /\ HasKey(current_state, "kind") /\ HasKey(desired_state, "kind")
    /\ HasKey(current_state, "spec") /\ HasKey(desired_state, "spec")
    /\ IsDict(Get(current_state, "spec")) /\ IsDict(Get(desired_state, "spec"))
    /\ HasKey(Get(current_state, "spec"), "template")
    /\ HasKey(Get(desired_state, "spec"), "template")
    /\ IsList(Get(Get(current_state, "spec"), "template"))
    /\ IsList(Get(Get(desired_state, "spec"), "template"))
    /\ diff.removed = <<>> /\ diff.added = <<>>
    /\ diff.changed =
          <<[path |-> "kind", old_value |-> Str("a"), new_value |-> Str("b")],
            [path |-> "spec.template[a].image",
             old_value |-> Str("a"), new_value |-> Str("b")]>>
====
